---- MODULE Spec2Model ----
(***************************************************************************)
(* Model of main() of the hls_helloworld example caller                    *)
(* (actions/hls_helloworld/sw/ocaccel_helloworld.c): option parsing,       *)
(* buffer set-up, card open, action attach, job preparation, synchronous   *)
(* execution, result inspection, verification and the teardown paths.      *)
(* The collaborators (libocaccel, ocaccel_tools.h helpers, the hardware)   *)
(* are the environment: every outcome they can hand back is drawn with \E. *)
(***************************************************************************)
EXTENDS Integers, Sequences, FiniteSets, TLC

\* ------------------------------------------------------------------ bounds
MaxSize == 1
MaxByte == 1

\* ------------------------------------------------------- program constants
TrailLen == 1024
EXIT_SUCCESS == 0
EXIT_FAILURE == 1
EX_ERR_VERIFY == 3
SIGABRT_STATUS == 134
SIGSEGV_STATUS == 139
OCACCEL_JOBSIZE == 108

NULL == "NULL"
HOST_DRAM == "HOST_DRAM"
CARD_DRAM == "CARD_DRAM"
OCACCEL_RETC_SUCCESS == "RETC_SUCCESS"
OCACCEL_RETC_FAILURE == "RETC_FAILURE"

Byte == 0..MaxByte
Sizes == 0..MaxSize
MemTypes == {HOST_DRAM, CARD_DRAM}
Retcs == {OCACCEL_RETC_SUCCESS, OCACCEL_RETC_FAILURE}
\* status of ocaccel_action_sync_execute_job: 0, a device fault, a timeout
ExecRcs == {0, -1, -2}
\* sizeof(struct helloworld_job) of the build: two address descriptors, or a
\* job structure that outgrew the job window
JobSizes == {32, OCACCEL_JOBSIZE + 1}
\* offsets (1-based, inside the trailing region) at which the hardware may
\* leave a stray non-zero byte
StrayOffsets == {1, TrailLen}

VARIABLES
    pc,          \* position in main
    input,       \* -i given
    output,      \* -o given
    verify,      \* -X count
    action_irq,  \* TRUE: OCACCEL_ACTION_DONE_IRQ, FALSE: 0 (-N)
    type_in, type_out,
    addr_in, addr_out,   \* "user" (the -a / -d value) or the buffer's name
    size,
    ibuff, obuff,        \* NULL or the name of the allocation
    mem,                 \* bytes of the two allocations
    card, action,        \* NULL or a handle
    rc,
    cjob,                \* the job: return code, job window and its size
    mjob,                \* the helloworld job structure
    sizeof_mjob,
    exit_code,
    exit_status,         \* -1 while running, then the process status
    out_stream, err_stream,  \* messages written to stdout / stderr
    calls,               \* collaborator calls issued, in order
    held,                \* resources currently held
    acq, rel,            \* resources in the order acquired / released
    hist                 \* facts about the run that main does not keep

vars == <<pc, input, output, verify, action_irq, type_in, type_out,
          addr_in, addr_out, size,
          ibuff, obuff, mem, card, action, rc, cjob, mjob, sizeof_mjob, exit_code,
          exit_status, out_stream, err_stream, calls, held, acq, rel, hist>>

opts == <<input, output, verify, action_irq>>
addrs == <<type_in, type_out, addr_in, addr_out>>
bufs == <<ibuff, obuff, mem>>
handles == <<card, action>>
job == <<cjob, mjob, sizeof_mjob>>
streams == <<out_stream, err_stream>>
resources == <<held, acq, rel>>

\* A byte array is kept as its length and its non-zero bytes (offset -> byte,
\* offsets from 1); every other byte of it is 0.
Bytes(f, len) ==
    [len |-> len, nz |-> [i \in {j \in DOMAIN f : f[j] # 0} |-> f[i]]]
ByteAt(b, i) == IF i \in DOMAIN b.nz THEN b.nz[i] ELSE 0

\* n bytes of 0: memset(p, 0, n), or an array initialised with { 0, }
Zeros(n) == [len |-> n, nz |-> <<>>]

\* a pointer into a byte array: the array and the offset of the first byte
Ptr(b) == [buf |-> b, off |-> 0]
\* p + n for a byte pointer p
PtrAdd(p, n) == [p EXCEPT !.off = @ + n]

\* memcmp(p, q, n): 0 when the first n bytes agree, else the difference of the
\* first two bytes that differ
Memcmp(p, q, n) ==
    LET a(i) == ByteAt(p.buf, p.off + i)
        b(i) == ByteAt(q.buf, q.off + i)
    IN  IF \A i \in 1..n : a(i) = b(i) THEN 0
        ELSE LET k == CHOOSE i \in 1..n :
                         a(i) # b(i) /\ \A j \in 1..(i-1) : a(j) = b(j)
             IN  a(k) - b(k)

\* an address descriptor the stack has not initialised yet
GarbageAddr == [addr |-> "garbage", size |-> -1, type |-> "garbage", flags |-> {}]

\* struct helloworld_job on the stack before anything is stored in it: the
\* two address descriptors and the rest of the structure
GarbageJob == [state |-> "garbage", in |-> GarbageAddr, out |-> GarbageAddr,
               rest |-> "garbage"]
\* the same after memset(mjob, 0, sizeof(*mjob))
ZeroAddr == [addr |-> "zero", size |-> 0, type |-> "zero", flags |-> {}]
ZeroJob == [state |-> "zeroed", in |-> ZeroAddr, out |-> ZeroAddr,
            rest |-> "zero"]

NoHist == [parsed |-> FALSE, card_opened |-> FALSE, attach |-> "none",
           exec |-> "none", write |-> "none", retc_read |-> FALSE,
           cmp_data |-> "none", cmp_trail |-> "none", label |-> "none",
           failed |-> "none"]

Init ==
    /\ pc = "parse"
    /\ input = FALSE /\ output = FALSE /\ verify = 0 /\ action_irq = TRUE
    /\ type_in = HOST_DRAM /\ type_out = HOST_DRAM
    /\ addr_in = "user" /\ addr_out = "user"
    /\ size = MaxSize
    /\ ibuff = NULL /\ obuff = NULL
    /\ mem = [ibuf |-> Zeros(0), obuf |-> Zeros(0)]
    /\ card = NULL /\ action = NULL
    /\ rc = 0
    /\ cjob = [retc |-> "garbage", win |-> NULL, win_size |-> -1]
    /\ mjob = GarbageJob
    /\ sizeof_mjob \in JobSizes
    /\ exit_code = EXIT_SUCCESS
    /\ exit_status = -1
    /\ out_stream = <<>> /\ err_stream = <<>>
    /\ calls = <<>>
    /\ held = {} /\ acq = <<>> /\ rel = <<>>
    /\ hist = NoHist

\* exit(status): the process ends with that status
Exit(status) ==
    /\ pc' = "exited"
    /\ exit_status' = status

\* the process is killed by a signal: no teardown code runs
Killed(status) ==
    /\ pc' = "killed"
    /\ exit_status' = status

Acquire(r) ==
    /\ held' = held \cup {r}
    /\ acq' = Append(acq, r)
    /\ rel' = rel

Release(r) ==
    /\ held' = held \ {r}
    /\ rel' = Append(rel, r)
    /\ acq' = acq

Say(stream, msg) == Append(stream, msg)
Note(field, value) == [hist EXCEPT ![field] = value]

\* ocaccel_malloc, __file_size, __file_read and __file_write report their own
\* failure on stderr: main prints nothing of its own where they fail
HelperSays(msg) == Say(err_stream, msg)

\* goto label after the failure why
Fail(why, label) ==
    /\ hist' = [hist EXCEPT !.failed = why, !.label = label]
    /\ pc' = label

\* lines 147-249: the option loop and the two argument checks. -V and -h end
\* the process with EXIT_SUCCESS, a bad option or argument with EXIT_FAILURE.
ParseArgs ==
    /\ pc = "parse"
    /\ \/ /\ out_stream' = Say(out_stream, "version")
          /\ Exit(EXIT_SUCCESS)
          /\ UNCHANGED <<opts, addrs, size, hist>>
       \/ /\ out_stream' = Say(out_stream, "usage")
          /\ \E st \in {EXIT_SUCCESS, EXIT_FAILURE} : Exit(st)
          /\ UNCHANGED <<opts, addrs, size, hist>>
       \/ /\ \E i \in BOOLEAN, o \in BOOLEAN, x \in 0..1, irq \in BOOLEAN,
                ti \in MemTypes, to \in MemTypes, s \in Sizes :
                /\ input' = i /\ output' = o /\ verify' = x
                /\ action_irq' = irq
                /\ type_in' = ti /\ type_out' = to
                /\ size' = s
          /\ UNCHANGED <<addr_in, addr_out, out_stream, exit_status>>
          /\ hist' = Note("parsed", TRUE)
          /\ pc' = "file_size"
    /\ UNCHANGED <<bufs, handles, rc, job, exit_code, err_stream, calls,
                   resources>>

\* lines 252-255: size = __file_size(input)
FileSize ==
    /\ pc = "file_size"
    /\ IF ~input
       THEN /\ pc' = "obuff_alloc"
            /\ UNCHANGED <<size, err_stream, calls, hist>>
       ELSE /\ calls' = Append(calls, "__file_size")
            /\ \E s \in {-1} \cup Sizes :
                 /\ size' = s
                 /\ IF s < 0
                    THEN /\ err_stream' = HelperSays("err_file_size")
                         /\ Fail("file_size", "out_error")
                    ELSE /\ pc' = "ibuff_alloc"
                         /\ UNCHANGED <<err_stream, hist>>
    /\ UNCHANGED <<opts, addrs, bufs, handles, rc, job, exit_code,
                   exit_status, out_stream, resources>>

\* lines 258-264: ibuff = ocaccel_malloc(size), memset, progress message
AllocIbuff ==
    /\ pc = "ibuff_alloc"
    /\ calls' = Append(calls, "ocaccel_malloc")
    /\ \/ /\ ibuff' = NULL
          /\ err_stream' = HelperSays("err_malloc")
          /\ Fail("alloc", "out_error")
          /\ UNCHANGED <<mem, out_stream, resources>>
       \/ /\ ibuff' = "ibuf"
          /\ mem' = [mem EXCEPT !.ibuf = Zeros(size)]
          /\ Acquire("ibuff")
          /\ out_stream' = Say(out_stream, "reading_input")
          /\ pc' = "file_read"
          /\ UNCHANGED <<err_stream, hist>>
    /\ UNCHANGED <<opts, addrs, size, obuff, handles, rc, job, exit_code,
                   exit_status>>

\* lines 267-273: rc = __file_read(input, ibuff, size)
FileRead ==
    /\ pc = "file_read"
    /\ calls' = Append(calls, "__file_read")
    /\ \/ /\ rc' = -1
          /\ err_stream' = HelperSays("err_file_read")
          /\ Fail("read", "out_error")
          /\ UNCHANGED <<mem, type_in, addr_in>>
       \/ /\ rc' = size
          /\ \E data \in [1..size -> Byte] :
                mem' = [mem EXCEPT !.ibuf = Bytes(data, size)]
          /\ type_in' = HOST_DRAM
          /\ addr_in' = ibuff
          /\ pc' = "obuff_alloc"
          /\ UNCHANGED <<err_stream, hist>>
    /\ UNCHANGED <<opts, type_out, addr_out, size, ibuff, obuff, handles,
                   job, exit_code, exit_status, out_stream, resources>>

\* lines 277-304: obuff = ocaccel_malloc(size + (verify ? 1024 : 0)), memset,
\* then the PARAMETERS printout
AllocObuff ==
    /\ pc = "obuff_alloc"
    /\ IF ~output
       THEN /\ out_stream' = Say(out_stream, "parameters")
            /\ pc' = "card_alloc"
            /\ UNCHANGED <<type_out, addr_out, obuff, mem, err_stream,
                           calls, resources, hist>>
       ELSE LET set_size == size + (IF verify # 0 THEN TrailLen ELSE 0) IN
            /\ calls' = Append(calls, "ocaccel_malloc")
            /\ \/ /\ obuff' = NULL
                  /\ err_stream' = HelperSays("err_malloc")
                  /\ Fail("alloc", "out_error")
                  /\ UNCHANGED <<type_out, addr_out, mem, out_stream,
                                 resources>>
               \/ /\ obuff' = "obuf"
                  /\ mem' = [mem EXCEPT !.obuf = Zeros(set_size)]
                  /\ Acquire("obuff")
                  /\ type_out' = HOST_DRAM
                  /\ addr_out' = "obuf"
                  /\ out_stream' = Say(out_stream, "parameters")
                  /\ pc' = "card_alloc"
                  /\ UNCHANGED <<err_stream, hist>>
    /\ UNCHANGED <<opts, type_in, addr_in, size, ibuff, handles, rc, job,
                   exit_code, exit_status>>

\* lines 313-322: card = ocaccel_card_alloc_dev(...)
CardAlloc ==
    /\ pc = "card_alloc"
    /\ calls' = Append(calls, "ocaccel_card_alloc_dev")
    /\ \/ /\ card' = NULL
          /\ err_stream' = Say(err_stream, "err_open_card")
          /\ Fail("card", "out_error")
          /\ UNCHANGED resources
       \/ /\ card' = "card"
          /\ Acquire("card")
          /\ hist' = Note("card_opened", TRUE)
          /\ pc' = "attach"
          /\ UNCHANGED err_stream
    /\ UNCHANGED <<opts, addrs, size, bufs, action, rc, job, exit_code,
                   exit_status, out_stream>>

\* line 325: action = ocaccel_attach_action(card, ACTION_TYPE, action_irq, 60)
AttachAction ==
    /\ pc = "attach"
    /\ calls' = Append(calls, "ocaccel_attach_action")
    /\ \/ /\ action' = NULL
          /\ hist' = Note("attach", "fail")
          /\ UNCHANGED resources
       \/ /\ action' = "action"
          /\ Acquire("action")
          /\ hist' = Note("attach", "ok")
    /\ pc' = "assign_irq"
    /\ UNCHANGED <<opts, addrs, size, bufs, card, rc, job, exit_code,
                   exit_status, streams>>

\* lines 326-327: if (action_irq) ocaccel_action_assign_irq(action, ...).
\* The call is made before action is tested: with a NULL handle the library
\* either returns or faults on the handle (the process dies of SIGSEGV).
AssignIrq ==
    /\ pc = "assign_irq"
    /\ IF ~action_irq
       THEN /\ pc' = "attach_check"
            /\ UNCHANGED <<calls, exit_status>>
       ELSE /\ calls' = Append(calls,
                    IF action = NULL THEN "ocaccel_action_assign_irq(NULL)"
                    ELSE "ocaccel_action_assign_irq")
            /\ \/ /\ pc' = "attach_check"
                  /\ UNCHANGED exit_status
               \/ /\ action = NULL
                  /\ Killed(SIGSEGV_STATUS)
    /\ UNCHANGED <<opts, addrs, size, bufs, handles, rc, job, exit_code,
                   streams, resources, hist>>

\* lines 328-332: if (action == NULL) { message; goto out_error1; }
AttachCheck ==
    /\ pc = "attach_check"
    /\ IF action = NULL
       THEN /\ err_stream' = Say(err_stream, "err_attach")
            /\ Fail("attach", "out_error1")
       ELSE /\ pc' = "prepare"
            /\ UNCHANGED <<err_stream, hist>>
    /\ UNCHANGED <<opts, addrs, size, bufs, handles, rc, job, exit_code,
                   exit_status, out_stream, calls, resources>>

\* ocaccel_addr_set(da, addr, size, type, flags): fills one address descriptor
ocaccel_addr_set(addr, sz, type, flags) ==
    [addr |-> addr, size |-> sz, type |-> type, flags |-> flags]

\* ocaccel_job_set(cjob, win, win_size, NULL, 0): points the job at its window
ocaccel_job_set(cj, win_size) ==
    [cj EXCEPT !.win = "mjob", !.win_size = win_size]

\* lines 105-106 and 109-110: the flags of the two descriptors
InFlags_WithEnd == {"ADDR", "SRC", "END"}
InFlags == {"ADDR", "SRC"}
OutFlags == {"ADDR", "DST", "END"}

PrepareRest == <<opts, addrs, size, bufs, handles, rc, sizeof_mjob,
                 exit_code, out_stream, calls, resources, hist>>

\* lines 335 and 99-101: the call, the message on stderr and the assert on the
\* job size; a failing assert writes its message and aborts
Prepare ==
    /\ pc = "prepare"
    /\ IF sizeof_mjob <= OCACCEL_JOBSIZE
       THEN /\ err_stream' = Say(err_stream, "prepare_info")
            /\ pc' = "prepare_memset"
            /\ UNCHANGED exit_status
       ELSE /\ err_stream' = Say(Say(err_stream, "prepare_info"),
                                 "assert_failed")
            /\ Killed(SIGABRT_STATUS)
    /\ UNCHANGED <<mjob, cjob, PrepareRest>>

PrepareMemset_Skipped ==
    /\ pc = "prepare_memset"
    /\ pc' = "prepare_in"
    /\ UNCHANGED <<mjob, cjob, err_stream, exit_status, PrepareRest>>

\* line 102: memset(mjob, 0, sizeof(*mjob))
PrepareMemset ==
    /\ pc = "prepare_memset"
    /\ mjob' = ZeroJob
    /\ pc' = "prepare_in"
    /\ UNCHANGED <<cjob, err_stream, exit_status, PrepareRest>>

\* lines 105-106: the input descriptor
PrepareIn ==
    /\ pc = "prepare_in"
    /\ mjob' = [mjob EXCEPT
                  !.in = ocaccel_addr_set(addr_in, size, type_in, InFlags)]
    /\ pc' = "prepare_out"
    /\ UNCHANGED <<cjob, err_stream, exit_status, PrepareRest>>

\* lines 108-110: the output descriptor
PrepareOut ==
    /\ pc = "prepare_out"
    /\ mjob' = [mjob EXCEPT
                  !.out = ocaccel_addr_set(addr_out, size, type_out, OutFlags),
                  !.state = "set"]
    /\ pc' = "prepare_job_set"
    /\ UNCHANGED <<cjob, err_stream, exit_status, PrepareRest>>

\* lines 112 and 344: ocaccel_job_set(cjob, mjob, sizeof(*mjob), NULL, 0), then
\* the start time
PrepareJobSet ==
    /\ pc = "prepare_job_set"
    /\ cjob' = ocaccel_job_set(cjob, sizeof_mjob)
    /\ pc' = "execute"
    /\ UNCHANGED <<mjob, err_stream, exit_status, PrepareRest>>

\* what the hardware can leave in an output buffer of the given length: any
\* size data bytes and, behind them, zeros or one stray non-zero byte
HwOutputs(len) ==
    LET strays == {{}} \cup
                  {{size + k} : k \in {j \in StrayOffsets : size + j <= len}}
    IN  {Bytes([i \in 1..size \cup st |-> IF i <= size THEN d[i] ELSE 1], len) :
            d \in [1..size -> Byte], st \in strays}

\* line 358: where a failed execution goes
ExecFailLabel_Fallthrough == "write_output"
ExecFailLabel_SkipsDetach == "out_error1"
ExecFailLabel_SkipsHandles == "out_error"
ExecFailLabel == "out_error2"

\* lines 351-359: rc = ocaccel_action_sync_execute_job(action, &cjob, timeout)
Execute ==
    /\ pc = "execute"
    /\ calls' = Append(calls, "ocaccel_action_sync_execute_job")
    /\ \E r \in ExecRcs :
         /\ rc' = r
         /\ IF r # 0
            THEN /\ err_stream' = Say(err_stream, "err_job_execution")
                 /\ hist' = [hist EXCEPT !.exec = "fail", !.failed = "exec",
                                         !.label = ExecFailLabel]
                 /\ pc' = ExecFailLabel
                 /\ UNCHANGED <<cjob, mem>>
            ELSE /\ \E retc \in Retcs : cjob' = [cjob EXCEPT !.retc = retc]
                 /\ IF obuff # NULL
                    THEN \E o \in HwOutputs(mem.obuf.len) :
                            mem' = [mem EXCEPT !.obuf = o]
                    ELSE UNCHANGED mem
                 /\ hist' = Note("exec", "ok")
                 /\ pc' = "write_output"
                 /\ UNCHANGED err_stream
    /\ UNCHANGED <<opts, addrs, size, ibuff, obuff, handles, mjob,
                   sizeof_mjob, exit_code, exit_status, out_stream,
                   resources>>

\* lines 362-369: rc = __file_write(output, obuff, size)
WriteOutput ==
    /\ pc = "write_output"
    /\ IF output
       THEN /\ out_stream' = Say(out_stream, "writing_output")
            /\ calls' = Append(calls, "__file_write")
            /\ \/ /\ rc' = -1
                  /\ err_stream' = HelperSays("err_file_write")
                  /\ hist' = [hist EXCEPT !.write = "fail",
                                 !.failed = "write", !.label = "out_error2"]
                  /\ pc' = "out_error2"
               \/ /\ rc' = size
                  /\ hist' = Note("write", "ok")
                  /\ pc' = "test_retc"
                  /\ UNCHANGED err_stream
       ELSE /\ pc' = "test_retc"
            /\ UNCHANGED <<rc, streams, calls, hist>>
    /\ UNCHANGED <<opts, addrs, size, bufs, handles, job, exit_code,
                   exit_status, resources>>

\* line 372: the marker printed for a return code
RetcMarker_Inverted(retc) ==
    IF retc = OCACCEL_RETC_SUCCESS THEN "FAILED" ELSE "SUCCESS"
RetcMarker(retc) ==
    IF retc = OCACCEL_RETC_SUCCESS THEN "SUCCESS" ELSE "FAILED"

\* line 375: where an unexpected return code goes
RetcFailLabel_Fallthrough == "verify"
RetcFailLabel == "out_error2"

\* lines 372-376: SUCCESS / FAILED on stdout, then the return-code test
TestRetc ==
    /\ pc = "test_retc"
    /\ IF cjob.retc = OCACCEL_RETC_SUCCESS
       THEN /\ out_stream' = Say(out_stream, RetcMarker(cjob.retc))
            /\ hist' = Note("retc_read", TRUE)
            /\ pc' = "verify"
            /\ UNCHANGED err_stream
       ELSE /\ out_stream' = Say(out_stream, RetcMarker(cjob.retc))
            /\ err_stream' = Say(err_stream, "err_retc")
            /\ hist' = [hist EXCEPT !.retc_read = TRUE, !.failed = "retc",
                                    !.label = RetcFailLabel]
            /\ pc' = RetcFailLabel
    /\ UNCHANGED <<opts, addrs, size, bufs, handles, rc, job, exit_code,
                   exit_status, calls, resources>>

\* what memcmp(a, b, n) can do: with both pointers valid it compares; with a
\* NULL (or NULL-derived) pointer the behaviour is undefined: the process
\* faults, or the call returns some value
MemcmpOutcomes(valid, a, b, n) ==
    IF valid
    THEN {[fault |-> FALSE, rc |-> Memcmp(a, b, n)]}
    ELSE {[fault |-> TRUE, rc |-> 0]} \cup
         {[fault |-> FALSE, rc |-> v] : v \in {-1, 0, 1}}

\* lines 380-381: the memory spaces the comparison is made for
VerifyOnHost_Either == type_in = HOST_DRAM \/ type_out = HOST_DRAM
VerifyOnHost == type_in = HOST_DRAM /\ type_out = HOST_DRAM

\* lines 379-384 and 394-396: the -X test, the memory-space test and
\* rc = memcmp(ibuff, obuff, size)
VerifyData ==
    /\ pc = "verify"
    /\ IF verify = 0
       THEN /\ pc' = "report_time"
            /\ UNCHANGED <<rc, exit_code, exit_status, err_stream, hist>>
       ELSE IF VerifyOnHost
       THEN \E o \in MemcmpOutcomes(ibuff # NULL /\ obuff # NULL,
                                    Ptr(mem.ibuf), Ptr(mem.obuf), size) :
              IF o.fault
              THEN /\ Killed(SIGSEGV_STATUS)
                   /\ hist' = Note("cmp_data", "fault")
                   /\ UNCHANGED <<rc, exit_code, err_stream>>
              ELSE /\ rc' = o.rc
                   /\ exit_code' = IF o.rc # 0 THEN EX_ERR_VERIFY
                                   ELSE exit_code
                   /\ hist' = [hist EXCEPT
                                 !.cmp_data = IF o.rc = 0 THEN "eq" ELSE "ne",
                                 !.failed = IF o.rc = 0 THEN @ ELSE "verify"]
                   /\ pc' = "verify_trail"
                   /\ UNCHANGED <<exit_status, err_stream>>
       ELSE /\ err_stream' = Say(err_stream, "warn_verify_host_only")
            /\ pc' = "report_time"
            /\ UNCHANGED <<rc, exit_code, exit_status, hist>>
    /\ UNCHANGED <<opts, addrs, size, bufs, handles, job, out_stream, calls,
                   resources>>

\* line 141: uint8_t trailing_zeros[1024] = { 0, }
trailing_zeros == Zeros(TrailLen)

\* lines 386-392: rc = memcmp(obuff + size, trailing_zeros, 1024)
VerifyTrail ==
    /\ pc = "verify_trail"
    /\ \E o \in MemcmpOutcomes(obuff # NULL, PtrAdd(Ptr(mem.obuf), size),
                               Ptr(trailing_zeros), TrailLen) :
         IF o.fault
         THEN /\ Killed(SIGSEGV_STATUS)
              /\ hist' = Note("cmp_trail", "fault")
              /\ UNCHANGED <<rc, exit_code, err_stream>>
         ELSE /\ rc' = o.rc
              /\ IF o.rc # 0
                 THEN /\ err_stream' = Say(Say(err_stream,
                                 "err_trailing_zero"), "hexdump")
                      /\ exit_code' = EX_ERR_VERIFY
                      /\ hist' = [hist EXCEPT !.cmp_trail = "ne",
                                              !.failed = "verify"]
                 ELSE /\ hist' = Note("cmp_trail", "eq")
                      /\ UNCHANGED <<err_stream, exit_code>>
              /\ pc' = "report_time"
              /\ UNCHANGED exit_status
    /\ UNCHANGED <<opts, addrs, size, bufs, handles, job, out_stream, calls,
                   resources>>

\* lines 399-400: the elapsed time on stdout
ReportTime ==
    /\ pc = "report_time"
    /\ out_stream' = Say(out_stream, "took_usec")
    /\ pc' = "detach"
    /\ UNCHANGED <<opts, addrs, size, bufs, handles, rc, job, exit_code,
                   exit_status, err_stream, calls, resources, hist>>

\* ocaccel_detach_action(action)
ocaccel_detach_action ==
    /\ calls' = Append(calls, "ocaccel_detach_action")
    /\ Release("action")

\* ocaccel_card_free(card)
ocaccel_card_free ==
    /\ calls' = Append(calls, "ocaccel_card_free")
    /\ Release("card")

\* __free(ptr): releases the allocation unless ptr is NULL
Free(ptr, r) ==
    /\ calls' = Append(calls, "__free")
    /\ IF ptr # NULL THEN Release(r) ELSE UNCHANGED resources

Rest == <<opts, addrs, size, bufs, handles, rc, job, exit_code, streams,
          hist>>

\* line 403
Detach ==
    /\ pc = "detach"
    /\ ocaccel_detach_action
    /\ pc' = "card_free"
    /\ UNCHANGED <<Rest, exit_status>>

\* line 404
CardFree ==
    /\ pc = "card_free"
    /\ ocaccel_card_free
    /\ pc' = "free_obuff"
    /\ UNCHANGED <<Rest, exit_status>>

\* line 406
FreeObuff ==
    /\ pc = "free_obuff"
    /\ Free(obuff, "obuff")
    /\ pc' = "free_ibuff"
    /\ UNCHANGED <<Rest, exit_status>>

\* line 408: the status of the normal exit
NormalExitStatus_AlwaysSuccess == EXIT_SUCCESS
NormalExitStatus == exit_code

FreeIbuffExit_FallsThrough ==
    /\ pc = "free_ibuff"
    /\ Free(ibuff, "ibuff")
    /\ pc' = "out_error2"
    /\ UNCHANGED <<Rest, exit_status>>

\* lines 407-408: __free(ibuff); exit(exit_code)
FreeIbuffExit ==
    /\ pc = "free_ibuff"
    /\ Free(ibuff, "ibuff")
    /\ Exit(NormalExitStatus)
    /\ UNCHANGED Rest

OutError2_NoDetach ==
    /\ pc = "out_error2"
    /\ pc' = "out_error1"
    /\ UNCHANGED <<Rest, exit_status, calls, resources>>

\* out_error2, line 411
OutError2 ==
    /\ pc = "out_error2"
    /\ ocaccel_detach_action
    /\ pc' = "out_error1"
    /\ UNCHANGED <<Rest, exit_status>>

OutError1_LeaksCard ==
    /\ pc = "out_error1"
    /\ pc' = "out_error"
    /\ UNCHANGED <<Rest, exit_status, calls, resources>>

\* out_error1, line 413
OutError1 ==
    /\ pc = "out_error1"
    /\ ocaccel_card_free
    /\ pc' = "out_error"
    /\ UNCHANGED <<Rest, exit_status>>

\* out_error, line 415
OutError ==
    /\ pc = "out_error"
    /\ Free(obuff, "obuff")
    /\ pc' = "out_error_ibuff"
    /\ UNCHANGED <<Rest, exit_status>>

\* lines 416-417: __free(ibuff); exit(EXIT_FAILURE)
OutErrorExit ==
    /\ pc = "out_error_ibuff"
    /\ Free(ibuff, "ibuff")
    /\ Exit(EXIT_FAILURE)
    /\ UNCHANGED Rest

Next ==
    \/ ParseArgs
    \/ FileSize
    \/ AllocIbuff
    \/ FileRead
    \/ AllocObuff
    \/ CardAlloc
    \/ AttachAction
    \/ AssignIrq
    \/ AttachCheck
    \/ Prepare
    \/ PrepareMemset
    \/ PrepareIn
    \/ PrepareOut
    \/ PrepareJobSet
    \/ Execute
    \/ WriteOutput
    \/ TestRetc
    \/ VerifyData
    \/ VerifyTrail
    \/ ReportTime
    \/ Detach
    \/ CardFree
    \/ FreeObuff
    \/ FreeIbuffExit
    \/ OutError2
    \/ OutError1
    \/ OutError
    \/ OutErrorExit

Spec == Init /\ [][Next]_vars

Terminated == pc \in {"exited", "killed"}

TypeOK ==
    /\ exit_status \in Int
    /\ (exit_status = -1) = ~Terminated
    /\ held \subseteq {"ibuff", "obuff", "card", "action"}

\* ------------------------------------------------------------ properties
Said(stream, msg) == \E i \in 1..Len(stream) : stream[i] = msg
Called(c) == \E i \in 1..Len(calls) : calls[i] = c
IndexOf(c) == CHOOSE i \in 1..Len(calls) : calls[i] = c
Reverse(q) == [i \in 1..Len(q) |-> q[Len(q) + 1 - i]]
IsPrefix(p, q) == Len(p) <= Len(q) /\ \A i \in 1..Len(p) : p[i] = q[i]

\* the -X comparisons are made: -X given and both memory spaces HOST_DRAM
VerificationRuns ==
    verify # 0 /\ type_in = HOST_DRAM /\ type_out = HOST_DRAM

\* every stage a zero exit status stands for went well
AllStagesOk ==
    /\ hist.card_opened /\ card # NULL
    /\ hist.attach = "ok" /\ action # NULL
    /\ hist.exec = "ok"
    /\ (output => hist.write = "ok")
    /\ cjob.retc = OCACCEL_RETC_SUCCESS
    /\ (VerificationRuns => hist.cmp_data = "eq" /\ hist.cmp_trail = "eq")

\* some stage failed
SomeStageFailed ==
    \/ hist.failed \in {"card", "attach", "exec", "write", "retc", "verify"}
    \/ hist.attach = "fail"
    \/ hist.exec = "ok" /\ cjob.retc # OCACCEL_RETC_SUCCESS
    \/ hist.cmp_data = "ne" \/ hist.cmp_trail = "ne"

\* C1 as stated: in every run of main, exit status 0 only if the card was
\* opened, the action attached, execution returned 0, the requested output
\* write succeeded, retc is the success code and the -X comparisons matched;
\* and a failure of any of these stages gives a non-zero status.
C1_EveryRun ==
    Terminated =>
        /\ (exit_status = 0 => AllStagesOk)
        /\ (SomeStageFailed => exit_status # 0)

\* C1 amended: the same for every run that was not ended by -V or -h during
\* option parsing (those exit 0 before any stage runs).
C1_PastParsing ==
    Terminated =>
        /\ (exit_status = 0 /\ hist.parsed => AllStagesOk)
        /\ (SomeStageFailed => exit_status # 0)

C1_Witness ==
    /\ pc = "exited" /\ exit_status = 0 /\ hist.parsed
    /\ output /\ VerificationRuns /\ AllStagesOk

\* C2: whenever ocaccel_card_free has been called the action is no longer
\* attached, and when both detach and card_free were called detach came first.
C2_DetachBeforeFree ==
    Called("ocaccel_card_free") =>
        /\ "action" \notin held
        /\ (Called("ocaccel_detach_action") =>
              IndexOf("ocaccel_detach_action") < IndexOf("ocaccel_card_free"))
        /\ (hist.attach = "ok" => Called("ocaccel_detach_action"))

C2_Witness ==
    /\ Called("ocaccel_detach_action") /\ Called("ocaccel_card_free")
    /\ hist.label = "out_error2"

\* C3 as stated: every termination after a successful ocaccel_card_alloc_dev
\* (an exit, normal or through the error labels, or a failed job construction
\* in ocaccel_prepare_helloworld) has detached the action, if it was attached,
\* and freed the card.
C3_AllReleased ==
    /\ Terminated /\ hist.card_opened
    /\ pc = "exited" \/ Said(err_stream, "assert_failed")
    => "card" \notin held /\ "action" \notin held

\* C4 as stated: when attach returns NULL the card is freed before the
\* process ends and detach is never called.
C4_CardFreedOnAttachFailure ==
    Terminated /\ hist.attach = "fail" =>
        /\ Called("ocaccel_card_free") /\ "card" \notin held
        /\ ~Called("ocaccel_detach_action")

\* the order in which main acquires its resources
AcquisitionOrder == <<"ibuff", "obuff", "card", "action">>

\* C5: on the paths through the out_error labels the releases so far are the
\* acquisitions in reverse (a prefix of them until the exit, all of them at
\* the exit), and the acquisitions follow input buffer, output buffer, card,
\* action with the ones not made left out.
C5_ReverseRelease ==
    hist.label # "none" =>
        /\ acq = SelectSeq(AcquisitionOrder, LAMBDA r : r \in (held \cup {rel[i] : i \in 1..Len(rel)}))
        /\ IsPrefix(rel, Reverse(acq))
        /\ (pc = "exited" => rel = Reverse(acq))

C5_Witness ==
    /\ pc = "exited" /\ hist.label = "out_error2"
    /\ acq = AcquisitionOrder /\ rel = Reverse(AcquisitionOrder)

\* the calls made on the action handle or the card
HandleCalls == {"ocaccel_attach_action", "ocaccel_action_assign_irq",
                "ocaccel_action_assign_irq(NULL)",
                "ocaccel_action_sync_execute_job", "ocaccel_detach_action",
                "ocaccel_card_free"}

\* the handle and card calls made after the (single) execute call
AfterExecute ==
    SelectSeq(SubSeq(calls, IndexOf("ocaccel_action_sync_execute_job") + 1,
                     Len(calls)),
              LAMBDA c : c \in HandleCalls)

\* C6: once execution has returned non-zero, the calls on the handle and the
\* card are detach and then card_free and nothing else, and at the end of the
\* process both have been made: the handle is detached and the card closed.
C6_TornDownAfterExecFailure ==
    hist.exec = "fail" =>
        /\ IsPrefix(AfterExecute,
                    <<"ocaccel_detach_action", "ocaccel_card_free">>)
        /\ (Terminated =>
              /\ AfterExecute = <<"ocaccel_detach_action", "ocaccel_card_free">>
              /\ "action" \notin held /\ "card" \notin held)

C6_Witness ==
    /\ Terminated /\ hist.exec = "fail"
    /\ AfterExecute = <<"ocaccel_detach_action", "ocaccel_card_free">>

\* C7 as stated: a run that printed SUCCESS exits 0, and a run that exits 0
\* after executing a job printed SUCCESS. (Read here on the runs whose -X
\* comparisons, if made, are made on two allocated buffers.)
C7_MarkerIffExitZero ==
    Terminated /\ (VerificationRuns => ibuff # NULL /\ obuff # NULL) =>
        /\ (Said(out_stream, "SUCCESS") => exit_status = 0)
        /\ (exit_status = 0 /\ hist.exec # "none" =>
              Said(out_stream, "SUCCESS"))

\* C7 amended: a run that exits 0 after executing a job printed SUCCESS, and
\* a run that printed SUCCESS exits 0 whenever the -X comparisons are not
\* made (no -X, or a memory space other than HOST_DRAM).
C7_MarkerUnlessVerified ==
    Terminated =>
        /\ (Said(out_stream, "SUCCESS") /\ ~VerificationRuns =>
              exit_status = 0)
        /\ (exit_status = 0 /\ hist.exec # "none" =>
              Said(out_stream, "SUCCESS"))

C7_Witness ==
    /\ pc = "exited" /\ exit_status = 0 /\ hist.exec = "ok"
    /\ Said(out_stream, "SUCCESS") /\ ~VerificationRuns

\* the messages on stderr that report an error
ErrDiagnostics == {"err_file_size", "err_malloc", "err_file_read",
                   "err_open_card", "err_attach", "err_job_execution",
                   "err_file_write", "err_retc", "err_trailing_zero"}

\* C8 as stated: a run that exits non-zero because of a buffer-allocation,
\* input-read, card-open, attach, execution, output-write, return-code or
\* verification failure has written an error diagnostic to stderr. (A
\* verification failure is taken here as a mismatch found by comparing the
\* two allocated buffers, leaving aside comparisons made on a NULL buffer.)
C8_FailureHasDiagnostic ==
    /\ pc = "exited" /\ exit_status # 0
    /\ hist.failed \in {"alloc", "file_size", "read", "card", "attach",
                        "exec", "write", "retc", "verify"}
    /\ (hist.failed = "verify" => ibuff # NULL /\ obuff # NULL)
    => \E m \in ErrDiagnostics : Said(err_stream, m)

\* C9: the execution failure message is written exactly when execute returned
\* non-zero, and then retc is never inspected; the return-code message is
\* written only after execute returned 0, for a retc that is not the success
\* code; no run has both messages.
C9_ExecVsRetc ==
    /\ Said(err_stream, "err_job_execution") <=> hist.exec = "fail"
    /\ (hist.exec = "fail" =>
          ~hist.retc_read /\ ~Said(err_stream, "err_retc")
          /\ ~Said(out_stream, "FAILED") /\ ~Said(out_stream, "SUCCESS"))
    /\ (hist.retc_read => hist.exec = "ok")
    /\ (Said(err_stream, "err_retc") =>
          hist.exec = "ok" /\ cjob.retc # OCACCEL_RETC_SUCCESS)

C9_Witness ==
    /\ Terminated /\ hist.exec = "fail"
    /\ Said(err_stream, "err_job_execution")

\* a -X comparison has been made
Compared == hist.cmp_data # "none" \/ hist.cmp_trail # "none"
Mismatch == hist.cmp_data = "ne" \/ hist.cmp_trail = "ne"

JobSucceeded ==
    hist.exec = "ok" /\ hist.retc_read /\ cjob.retc = OCACCEL_RETC_SUCCESS

\* a byte of the output buffer in [size, size + 1024) is not zero
StrayTrailingByte ==
    \E i \in DOMAIN mem.obuf.nz : i > size /\ i <= size + TrailLen

\* C11: with -X and both memory spaces HOST_DRAM, once the buffers are set up
\* the output buffer is allocated with size + 1024 bytes, all zero; and a run
\* that exits after a successful job with a non-zero byte in [size, size+1024)
\* of the output buffer exits with EX_ERR_VERIFY, never 0.
C11_TrailingZerosGuarded ==
    /\ (VerificationRuns /\ pc = "card_alloc" =>
          obuff # NULL /\ mem.obuf = Zeros(size + TrailLen))
    /\ (VerificationRuns /\ JobSucceeded /\ obuff # NULL /\ StrayTrailingByte
        /\ pc = "exited" =>
          exit_status = EX_ERR_VERIFY)

\* the normal path behind the verification step
PastVerify == {"report_time", "detach", "card_free", "free_obuff",
               "free_ibuff", "exited"}

\* C12: a -X comparison is made (or attempted) only with -X given and both
\* memory spaces HOST_DRAM; with -X and any other combination a successful
\* job passes the verification step with the warning on stderr, no comparison
\* made and exit_code untouched, and the run exits with status 0; the warning
\* is printed in no other case.
C12_ComparesOnlyHostToHost ==
    /\ (Compared =>
          verify # 0 /\ type_in = HOST_DRAM /\ type_out = HOST_DRAM)
    /\ (verify # 0 /\ ~(type_in = HOST_DRAM /\ type_out = HOST_DRAM)
        /\ JobSucceeded /\ pc \in PastVerify =>
          /\ Said(err_stream, "warn_verify_host_only")
          /\ ~Compared
          /\ exit_code = EXIT_SUCCESS
          /\ (pc = "exited" => exit_status = EXIT_SUCCESS))
    /\ (Said(err_stream, "warn_verify_host_only") =>
          verify # 0 /\ ~(type_in = HOST_DRAM /\ type_out = HOST_DRAM))

C12_Witness ==
    /\ pc = "exited" /\ verify # 0 /\ JobSucceeded
    /\ type_in = HOST_DRAM /\ type_out = CARD_DRAM
    /\ Said(err_stream, "warn_verify_host_only")
    /\ exit_status = EXIT_SUCCESS

\* positions in calls of the calls to c
CallsOf(c) == {i \in 1..Len(calls) : calls[i] = c}

\* from the call of ocaccel_prepare_helloworld to the end of the job's use
JobInUse == {"prepare", "prepare_memset", "prepare_in", "prepare_out",
             "prepare_job_set", "execute", "write_output", "test_retc",
             "verify", "verify_trail", "report_time", "detach"}

\* C13: while the action is attached the buffers that were allocated are
\* still allocated, at the address the job's descriptors hold; no __free is
\* called from the preparation of the job to the detach; and with an attached
\* action every __free comes after the call of ocaccel_detach_action.
C13_BuffersOutliveAction ==
    /\ ("action" \in held =>
          /\ (ibuff # NULL => "ibuff" \in held /\ ibuff = "ibuf")
          /\ (obuff # NULL => "obuff" \in held /\ obuff = "obuf")
          /\ (input => addr_in = ibuff)
          /\ (output => addr_out = obuff)
          /\ (mjob.state = "set" =>
                mjob.in.addr = addr_in /\ mjob.out.addr = addr_out))
    /\ (pc \in JobInUse => ~Called("__free"))
    /\ (hist.attach = "ok" /\ Called("__free") =>
          /\ Called("ocaccel_detach_action")
          /\ \A f \in CallsOf("__free") :
                \A d \in CallsOf("ocaccel_detach_action") : d < f)

C13_Witness ==
    /\ pc = "exited" /\ hist.exec = "fail"
    /\ ibuff # NULL /\ obuff # NULL
    /\ Called("ocaccel_detach_action") /\ Cardinality(CallsOf("__free")) = 2
    /\ held = {}

\* everything but the position in main and the calls made
ButPcAndCalls == <<opts, addrs, size, bufs, handles, rc, job, exit_code,
                   exit_status, streams, resources, hist>>

\* C14: action_irq is read at one place only, the step at lines 326-327, so the
\* runs of the two modes under the same outcomes of the collaborators agree
\* when that step changes nothing the rest of main reads: in either mode it
\* goes on to the test of the handle, and all it may do besides is record the
\* interrupt assignment, made in interrupt mode on an attached handle.
C14_ModesAgree ==
    [][pc = "assign_irq" =>
         /\ pc' = "attach_check"
         /\ UNCHANGED ButPcAndCalls
         /\ \/ calls' = calls
            \/ /\ action_irq /\ action # NULL
               /\ calls' = Append(calls, "ocaccel_action_assign_irq")]_vars

\* C15: ocaccel_detach_action is called at most once in a run, and when it is
\* called ocaccel_attach_action had returned a handle, which main still has.
C15_DetachOnceOnAttached ==
    /\ Cardinality(CallsOf("ocaccel_detach_action")) <= 1
    /\ (Called("ocaccel_detach_action") =>
          /\ hist.attach = "ok" /\ action # NULL
          /\ \E a \in CallsOf("ocaccel_attach_action") :
                \A d \in CallsOf("ocaccel_detach_action") : a < d)

C15_Witness ==
    /\ pc = "exited" /\ hist.label = "none"
    /\ Cardinality(CallsOf("ocaccel_detach_action")) = 1
    /\ Cardinality(CallsOf("__free")) = 2

\* the address descriptors of struct helloworld_job in positional order
Descriptors == <<mjob.in, mjob.out>>

\* the positions of the descriptors that carry the end-of-chain flag
EndFlagged == {i \in 1..Len(Descriptors) : "END" \in Descriptors[i].flags}

\* C16: once ocaccel_prepare_helloworld has set both descriptors, exactly one
\* of them carries END, it is the last one, which is the output descriptor;
\* the input descriptor carries SRC and not DST, the output descriptor DST and
\* not SRC.
C16_OneEndFlagOnLast ==
    mjob.state = "set" =>
        /\ Cardinality(EndFlagged) = 1
        /\ EndFlagged = {Len(Descriptors)}
        /\ Descriptors[Len(Descriptors)] = mjob.out
        /\ "SRC" \in mjob.in.flags /\ "DST" \notin mjob.in.flags
        /\ "DST" \in mjob.out.flags /\ "SRC" \notin mjob.out.flags

C16_Witness ==
    /\ pc = "execute" /\ mjob.state = "set"
    /\ mjob.in.type = HOST_DRAM /\ mjob.out.type = CARD_DRAM

\* C17: when the assert on the job size fails nothing has been stored in the
\* job structure or in cjob; a job structure that has been stored into passed
\* the size check and had been zeroed first, so every byte outside the two
\* descriptors is zero; cjob points at the job only once both descriptors are
\* set; and when ocaccel_action_sync_execute_job is called the job is zeroed,
\* both descriptors are set from main's arguments and cjob points at it.
C17_CheckedZeroedPopulated ==
    /\ (Said(err_stream, "assert_failed") =>
          mjob = GarbageJob /\ cjob.win = NULL /\ cjob.win_size = -1)
    /\ (mjob # GarbageJob =>
          sizeof_mjob <= OCACCEL_JOBSIZE /\ mjob.rest = "zero")
    /\ (cjob.win # NULL => mjob.state = "set" /\ cjob.win = "mjob")
    /\ (pc = "execute" \/ Called("ocaccel_action_sync_execute_job") =>
          /\ mjob.rest = "zero"
          /\ mjob.in = ocaccel_addr_set(addr_in, size, type_in, InFlags)
          /\ mjob.out = ocaccel_addr_set(addr_out, size, type_out, OutFlags)
          /\ cjob.win = "mjob" /\ cjob.win_size = sizeof_mjob)

C17_Witness ==
    /\ Called("ocaccel_action_sync_execute_job")
    /\ mjob.rest = "zero" /\ mjob.state = "set"
    /\ mjob.in.addr = "ibuf" /\ mjob.out.addr = "obuf"

\* the operations on the action handle
HandleOps == {"ocaccel_action_assign_irq", "ocaccel_action_assign_irq(NULL)",
              "ocaccel_action_sync_execute_job", "ocaccel_detach_action"}

\* C18: every call of ocaccel_action_assign_irq, of
\* ocaccel_action_sync_execute_job and of ocaccel_detach_action is made with
\* the handle a successful ocaccel_attach_action returned, never with NULL.
C18_HandleOpsOnAttachedHandle ==
    \A i \in 1..Len(calls) :
        calls[i] \in HandleOps =>
            /\ calls[i] # "ocaccel_action_assign_irq(NULL)"
            /\ hist.attach = "ok" /\ action # NULL

\* C19: when a -X comparison is made (or attempted), ibuff is an allocation of
\* at least size bytes and obuff one of at least size + 1024 bytes.
C19_ComparedBuffersAllocated ==
    Compared =>
        /\ ibuff # NULL /\ mem.ibuf.len >= size
        /\ obuff # NULL /\ mem.obuf.len >= size + TrailLen

\* C20 as stated: __file_write is called only for a job whose execution
\* returned 0 and whose return code is the success code.
C20_WrittenOnlyOnSuccessRetc ==
    Called("__file_write") =>
        hist.exec = "ok" /\ cjob.retc = OCACCEL_RETC_SUCCESS

\* C20 amended: __file_write is called only with -o given and after an
\* execution that returned 0, never after one that returned non-zero; it is
\* called before the return code is looked at, so whatever the return code is,
\* by the time it is tested the output of a -o run has been written.
C20_WrittenAfterExecuteOk ==
    /\ (Called("__file_write") =>
          /\ output /\ hist.exec = "ok"
          /\ \A w \in CallsOf("__file_write") :
                \E e \in CallsOf("ocaccel_action_sync_execute_job") : e < w)
    /\ (hist.exec = "fail" => ~Called("__file_write"))
    /\ (pc = "write_output" => ~hist.retc_read)
    /\ (hist.retc_read /\ output => Called("__file_write"))

C20_Witness ==
    /\ pc = "exited" /\ hist.write = "ok" /\ Called("__file_write")
    /\ cjob.retc = OCACCEL_RETC_FAILURE /\ exit_status = EXIT_FAILURE

====
